---- MODULE Spec2Model ----
(***************************************************************************)
(* Model of the flutter_gen scaffolder (src/src/main.rs).                  *)
(*                                                                         *)
(* Strings are sequences of one-character strings, so that case folding,   *)
(* format! concatenation and path comparison are computed, not assumed.    *)
(* A path is a sequence of segments (each segment a string as above).      *)
(* Feature names are drawn from identifiers without a path separator, as   *)
(* in the data model (a snake_case identifier), so Path::join of a name    *)
(* appends exactly one segment.                                            *)
(***************************************************************************)
EXTENDS Integers, Sequences, FiniteSets, TLC

\* Number of non-empty answers the feature prompt receives in one run.
MaxInputs == 2

\* Length of the feature lists given directly to generate_router_template.
MaxRouterFeatures == 3

\* Length of the strings given directly to pascal_case.
MaxPascalLen == 4

\* ------------------------------------------------------------------------
\* String literals of the program, spelled out character by character.
S ==
  [ auth            |-> <<"a","u","t","h">>,
    AUTH            |-> <<"A","U","T","H">>,
    Auth            |-> <<"A","u","t","h">>,
    login           |-> <<"l","o","g","i","n">>,
    register        |-> <<"r","e","g","i","s","t","e","r">>,
    forgot_password |-> <<"f","o","r","g","o","t","_","p","a","s","s","w","o","r","d">>,
    home            |-> <<"h","o","m","e">>,
    profile         |-> <<"p","r","o","f","i","l","e">>,
    settings        |-> <<"s","e","t","t","i","n","g","s">>,
    cart            |-> <<"c","a","r","t">>,
    empty           |-> <<>>,
    blank           |-> <<" ">>,
    demo            |-> <<"d","e","m","o">>,
    my_flutter_app  |-> <<"m","y","_","f","l","u","t","t","e","r","_","a","p","p">>,
    com_example     |-> <<"c","o","m",".","e","x","a","m","p","l","e",".",
                          "m","y","_","f","l","u","t","t","e","r","_","a","p","p">>,
    lib             |-> <<"l","i","b">>,
    features        |-> <<"f","e","a","t","u","r","e","s">>,
    data            |-> <<"d","a","t","a">>,
    presentation    |-> <<"p","r","e","s","e","n","t","a","t","i","o","n">>,
    domain          |-> <<"d","o","m","a","i","n">>,
    logic           |-> <<"l","o","g","i","c">>,
    widgets         |-> <<"w","i","d","g","e","t","s">>,
    app             |-> <<"a","p","p">>,
    core            |-> <<"c","o","r","e">>,
    constants       |-> <<"c","o","n","s","t","a","n","t","s">>,
    utilities       |-> <<"u","t","i","l","i","t","i","e","s">>,
    services        |-> <<"s","e","r","v","i","c","e","s">>,
    state           |-> <<"s","t","a","t","e">>,
    theme           |-> <<"t","h","e","m","e">>,
    x_repository    |-> <<"_","r","e","p","o","s","i","t","o","r","y",".","d","a","r","t">>,
    x_model         |-> <<"_","m","o","d","e","l",".","d","a","r","t">>,
    x_screen        |-> <<"_","s","c","r","e","e","n",".","d","a","r","t">>,
    x_controller    |-> <<"_","c","o","n","t","r","o","l","l","e","r",".","d","a","r","t">>,
    app_theme_dart  |-> <<"a","p","p","_","t","h","e","m","e",".","d","a","r","t">>,
    app_colors_dart |-> <<"a","p","p","_","c","o","l","o","r","s",".","d","a","r","t">>,
    app_strings_dart |-> <<"a","p","p","_","s","t","r","i","n","g","s",".","d","a","r","t">>,
    logging_dart    |-> <<"l","o","g","g","i","n","g",".","d","a","r","t">>,
    permissions_dart |-> <<"p","e","r","m","i","s","s","i","o","n","s",".","d","a","r","t">>,
    custom_button_dart |-> <<"c","u","s","t","o","m","_","b","u","t","t","o","n",".","d","a","r","t">>,
    auth_service_dart |-> <<"a","u","t","h","_","s","e","r","v","i","c","e",".","d","a","r","t">>,
    auth_service_provider_dart |->
        <<"a","u","t","h","_","s","e","r","v","i","c","e","_",
          "p","r","o","v","i","d","e","r",".","d","a","r","t">>,
    app_dart        |-> <<"a","p","p",".","d","a","r","t">>,
    router_dart     |-> <<"r","o","u","t","e","r",".","d","a","r","t">>,
    main_dart       |-> <<"m","a","i","n",".","d","a","r","t">>,
    dot_env         |-> <<".","e","n","v">>,
    go_router       |-> <<"g","o","_","r","o","u","t","e","r">>,
    go_router_dart  |-> <<"g","o","_","r","o","u","t","e","r",".","d","a","r","t">>,
    hooks_riverpod  |-> <<"h","o","o","k","s","_","r","i","v","e","r","p","o","d">>,
    hooks_riverpod_dart |-> <<"h","o","o","k","s","_","r","i","v","e","r","p","o","d",
                              ".","d","a","r","t">>,
    login_screen_dart |-> <<"l","o","g","i","n","_","s","c","r","e","e","n",".","d","a","r","t">>,
    register_screen_dart |-> <<"r","e","g","i","s","t","e","r","_","s","c","r","e","e","n",
                               ".","d","a","r","t">>,
    forgot_password_screen_dart |->
        <<"f","o","r","g","o","t","_","p","a","s","s","w","o","r","d","_",
          "s","c","r","e","e","n",".","d","a","r","t">>,
    home_screen_dart |-> <<"h","o","m","e","_","s","c","r","e","e","n",".","d","a","r","t">>,
    profile_screen_dart |-> <<"p","r","o","f","i","l","e","_","s","c","r","e","e","n",
                              ".","d","a","r","t">>,
    settings_screen_dart |-> <<"s","e","t","t","i","n","g","s","_","s","c","r","e","e","n",
                               ".","d","a","r","t">> ]

\* ------------------------------------------------------------------------
\* str::to_lowercase and str::trim, on the ASCII alphabet of the model.
UpperLetters ==
  <<"A","B","C","D","E","F","G","H","I","J","K","L","M",
    "N","O","P","Q","R","S","T","U","V","W","X","Y","Z">>

LowerLetters ==
  <<"a","b","c","d","e","f","g","h","i","j","k","l","m",
    "n","o","p","q","r","s","t","u","v","w","x","y","z">>

char_to_lowercase(c) ==
  IF \E i \in DOMAIN UpperLetters : UpperLetters[i] = c
    THEN LowerLetters[CHOOSE i \in DOMAIN UpperLetters : UpperLetters[i] = c]
    ELSE c

to_lowercase(s) == [i \in 1..Len(s) |-> char_to_lowercase(s[i])]

Whitespace == {" ", "\t", "\n", "\r"}

\* Fault variant of trim_is_empty: is_empty() without trim().
is_empty_untrimmed(s) == s = <<>>

\* feature_name.trim().is_empty()
trim_is_empty(s) == \A i \in 1..Len(s) : s[i] \in Whitespace

\* Fault variant of is_auth_input: the comparison without to_lowercase().
is_auth_input_exact(feature_name) == feature_name = S.auth

\* feature_name.to_lowercase() == "auth"
is_auth_input(feature_name) == to_lowercase(feature_name) = S.auth

\* ------------------------------------------------------------------------
\* pascal_case.
\* char::to_ascii_uppercase
to_ascii_uppercase(c) ==
  IF \E i \in DOMAIN LowerLetters : LowerLetters[i] = c
    THEN UpperLetters[CHOOSE i \in DOMAIN LowerLetters : LowerLetters[i] = c]
    ELSE c

\* `for c in s.chars()` from the i-th character on, with the locals result
\* and capitalize.
RECURSIVE pascal_loop(_, _, _, _)
pascal_loop(s, i, result, capitalize) ==
  IF i > Len(s) THEN result
  ELSE IF s[i] = "_" THEN pascal_loop(s, i + 1, result, TRUE)
  ELSE IF capitalize
    THEN pascal_loop(s, i + 1, Append(result, to_ascii_uppercase(s[i])), FALSE)
    ELSE pascal_loop(s, i + 1, Append(result, s[i]), capitalize)

\* Fault variant of pascal_case: capitalize starts as false.
pascal_case_lower_start(s) == pascal_loop(s, 1, <<>>, FALSE)

pascal_case(s) == pascal_loop(s, 1, <<>>, TRUE)

\* ------------------------------------------------------------------------
\* Feature model.
Layers == <<S.data, S.presentation, S.domain, S.logic>>

Feature_new(name) == [name |-> name, layers |-> Layers]

\* The features pushed for one non-empty answer of the feature prompt.
pushed_features(feature_name) ==
  IF is_auth_input(feature_name)
    THEN <<Feature_new(S.login), Feature_new(S.register),
           Feature_new(S.forgot_password)>>
    ELSE <<Feature_new(feature_name)>>

\* ------------------------------------------------------------------------
\* Paths.
Join(path, rel) == path \o rel

Parent(path) == SubSeq(path, 1, Len(path) - 1)

\* The directories fs::create_dir_all(path) makes sure exist.
Ancestors(path) == {SubSeq(path, 1, n) : n \in 1..Len(path)}

lib_path(project) == <<project, S.lib>>

\* Fault variant of base_dirs: core/services is missing from the list.
base_dirs_no_services ==
  << <<S.app>>,
     <<S.core, S.constants>>,
     <<S.core, S.utilities>>,
     <<S.core, S.widgets>>,
     <<S.state>>,
     <<S.theme>> >>

base_dirs ==
  << <<S.app>>,
     <<S.core, S.constants>>,
     <<S.core, S.utilities>>,
     <<S.core, S.services>>,
     <<S.core, S.widgets>>,
     <<S.state>>,
     <<S.theme>> >>

feature_path_of(project, feature) ==
  Join(lib_path(project), <<S.features, feature.name>>)

\* The create_dir_all calls of the layer loop of one feature, in order.
RECURSIVE layer_dirs(_, _, _)
layer_dirs(feature_path, layers, i) ==
  IF i > Len(layers) THEN <<>>
  ELSE <<Join(feature_path, <<layers[i]>>)>>
       \o (IF layers[i] = S.presentation
             THEN <<Join(feature_path, <<layers[i], S.widgets>>)>>
             ELSE <<>>)
       \o layer_dirs(feature_path, layers, i + 1)

\* The fs::write calls of create_feature_files, in order.
feature_files(feature_path, feature_name, riverpod) ==
  << Join(feature_path, <<S.data, feature_name \o S.x_repository>>),
     Join(feature_path, <<S.domain, feature_name \o S.x_model>>),
     Join(feature_path, <<S.presentation, feature_name \o S.x_screen>>) >>
  \o (IF riverpod
        THEN <<Join(feature_path, <<S.logic, feature_name \o S.x_controller>>)>>
        ELSE <<>>)

\* Fault variant of core_files: the two service files are pushed without
\* the `if use_supabase` test.
core_files_ungated(lib, supabase) ==
  << Join(lib, <<S.core, S.constants, S.app_theme_dart>>),
     Join(lib, <<S.core, S.constants, S.app_colors_dart>>),
     Join(lib, <<S.core, S.constants, S.app_strings_dart>>),
     Join(lib, <<S.core, S.utilities, S.logging_dart>>),
     Join(lib, <<S.core, S.utilities, S.permissions_dart>>),
     Join(lib, <<S.core, S.widgets, S.custom_button_dart>>),
     Join(lib, <<S.core, S.services, S.auth_service_dart>>),
     Join(lib, <<S.core, S.services, S.auth_service_provider_dart>>) >>

\* The fs::write calls of create_core_files, in order.
core_files(lib, supabase) ==
  << Join(lib, <<S.core, S.constants, S.app_theme_dart>>),
     Join(lib, <<S.core, S.constants, S.app_colors_dart>>),
     Join(lib, <<S.core, S.constants, S.app_strings_dart>>),
     Join(lib, <<S.core, S.utilities, S.logging_dart>>),
     Join(lib, <<S.core, S.utilities, S.permissions_dart>>),
     Join(lib, <<S.core, S.widgets, S.custom_button_dart>>) >>
  \o (IF supabase
        THEN << Join(lib, <<S.core, S.services, S.auth_service_dart>>),
                Join(lib, <<S.core, S.services, S.auth_service_provider_dart>>) >>
        ELSE <<>>)

\* The fs::write calls of the loop of create_app_files, in order.
app_files(lib) ==
  << Join(lib, <<S.app, S.app_dart>>),
     Join(lib, <<S.app, S.router_dart>>),
     Join(lib, <<S.theme, S.app_theme_dart>>) >>

main_dart_path(lib) == Join(lib, <<S.main_dart>>)

env_path(project) == <<project, S.dot_env>>

\* ------------------------------------------------------------------------
\* Router synthesis (generate_router_template).
package_import(package, rel) == <<package>> \o rel

screen_import(project, dir, file) ==
  package_import(project, <<S.features, dir, S.presentation, file>>)

auth_provider_import(project) ==
  package_import(project, <<S.core, S.services, S.auth_service_provider_dart>>)

login_route == [path |-> "login", name |-> "login", screen |-> "LoginScreen"]

register_route ==
  [path |-> "register", name |-> "register", screen |-> "RegisterScreen"]

forgot_password_route ==
  [path |-> "forgot-password", name |-> "forgotPassword",
   screen |-> "ForgotPasswordScreen"]

home_route == [path |-> "/", name |-> "home", screen |-> "HomeScreen"]

profile_route ==
  [path |-> "/profile", name |-> "profile", screen |-> "ProfileScreen"]

settings_route ==
  [path |-> "/settings", name |-> "settings", screen |-> "SettingsScreen"]

\* The imports, routes, auth_routes and has_auth locals before the loop.
router_locals ==
  [ imports     |-> << package_import(S.go_router, <<S.go_router_dart>>),
                       package_import(S.hooks_riverpod, <<S.hooks_riverpod_dart>>) >>,
    routes      |-> <<>>,
    auth_routes |-> <<>>,
    has_auth    |-> FALSE ]

\* The "auth" | "login" | "register" arm of the match.
auth_arm(project, name, acc) ==
  LET a0 == [acc EXCEPT !.has_auth = TRUE,
                        !.imports = Append(@, auth_provider_import(project))]
      a1 == IF name = S.login \/ name = S.auth
              THEN [a0 EXCEPT
                      !.imports = Append(@, screen_import(project, S.auth,
                                                          S.login_screen_dart)),
                      !.auth_routes = Append(@, login_route)]
              ELSE a0
      a2 == IF name = S.register
              THEN [a1 EXCEPT
                      !.imports = Append(@, screen_import(project, S.auth,
                                                          S.register_screen_dart)),
                      !.auth_routes = Append(@, register_route)]
              ELSE a1
      a3 == IF name = S.auth
              THEN [a2 EXCEPT
                      !.imports = Append(@, screen_import(project, S.auth,
                                                 S.forgot_password_screen_dart)),
                      !.auth_routes = Append(@, forgot_password_route)]
              ELSE a2
  IN a3

\* Fault variant of router_match: `register` is missing from the pattern of
\* the auth arm.
router_match_without_register(project, name, acc) ==
  CASE name \in {S.auth, S.login} -> auth_arm(project, name, acc)
    [] name = S.home ->
         [acc EXCEPT !.imports = Append(@, screen_import(project, S.home,
                                                         S.home_screen_dart)),
                     !.routes = Append(@, home_route)]
    [] name = S.profile ->
         [acc EXCEPT !.imports = Append(@, screen_import(project, S.profile,
                                                         S.profile_screen_dart)),
                     !.routes = Append(@, profile_route)]
    [] name = S.settings ->
         [acc EXCEPT !.imports = Append(@, screen_import(project, S.settings,
                                                         S.settings_screen_dart)),
                     !.routes = Append(@, settings_route)]
    [] OTHER -> acc

\* One iteration of `for feature in features`: the match on feature.name.
router_match(project, name, acc) ==
  CASE name \in {S.auth, S.login, S.register} -> auth_arm(project, name, acc)
    [] name = S.home ->
         [acc EXCEPT !.imports = Append(@, screen_import(project, S.home,
                                                         S.home_screen_dart)),
                     !.routes = Append(@, home_route)]
    [] name = S.profile ->
         [acc EXCEPT !.imports = Append(@, screen_import(project, S.profile,
                                                         S.profile_screen_dart)),
                     !.routes = Append(@, profile_route)]
    [] name = S.settings ->
         [acc EXCEPT !.imports = Append(@, screen_import(project, S.settings,
                                                         S.settings_screen_dart)),
                     !.routes = Append(@, settings_route)]
    [] OTHER -> acc

RECURSIVE router_loop(_, _, _, _)
router_loop(project, feats, i, acc) ==
  IF i > Len(feats) THEN acc
  ELSE router_loop(project, feats, i + 1,
                   router_match(project, feats[i].name, acc))

\* routes.iter().any(|r| r.contains("path: '/'")): of the route literals
\* only the one whose path is '/' contains that text.
has_root_route(routes) == \E i \in 1..Len(routes) : routes[i].path = "/"

\* Fault variant of default_home: no default route is added.
default_home_missing(project, acc) == acc

\* "Add default home route if not specified".
default_home(project, acc) ==
  IF ~has_root_route(acc.routes)
    THEN [acc EXCEPT !.routes = <<home_route>> \o @,
                     !.imports = Append(@, screen_import(project, S.home,
                                                         S.home_screen_dart))]
    ELSE acc

\* The text of router.dart, kept in its parts: the import lines, the
\* auth-service read, the redirect block, the top-level routes and the
\* '/auth' group with its nested routes.
generate_router_template(project, riverpod, feats) ==
  IF ~riverpod
    THEN [ placeholder   |-> TRUE,
           imports       |-> <<package_import(S.go_router, <<S.go_router_dart>>)>>,
           auth_service  |-> FALSE,
           auth_redirect |-> FALSE,
           routes        |-> <<>>,
           auth_group    |-> <<>> ]
    ELSE LET acc == default_home(project,
                      router_loop(project, feats, 1, router_locals))
         IN [ placeholder   |-> FALSE,
              imports       |-> acc.imports,
              auth_service  |-> acc.has_auth,
              auth_redirect |-> acc.has_auth,
              routes        |-> acc.routes,
              auth_group    |-> IF acc.has_auth
                                  THEN <<[path |-> "/auth", name |-> "auth",
                                          screen |-> "LoginScreen",
                                          routes |-> acc.auth_routes]>>
                                  ELSE <<>> ]

\* ------------------------------------------------------------------------
\* Arguments of the external commands (run_flutter_commands).
base_dependencies ==
  << "connectivity_plus", "device_info_plus", "flutter_background_service",
     "flutter_dotenv", "flutter_launcher_icons", "flutter_native_splash",
     "go_router", "logging", "path", "permission_handler", "shadcn_ui",
     "share_plus", "simple_circular_progress_bar", "sqflite" >>

riverpod_dependencies ==
  << "hooks_riverpod", "riverpod_annotation", "flutter_riverpod",
     "flutter_hooks", "hooks_riverpod" >>

supabase_dependencies == <<"supabase_flutter">>

runtime_packages(supabase, riverpod) ==
  base_dependencies
  \o (IF riverpod THEN riverpod_dependencies ELSE <<>>)
  \o (IF supabase THEN supabase_dependencies ELSE <<>>)

runtime_command(supabase, riverpod) ==
  <<"pub", "add">> \o runtime_packages(supabase, riverpod)

dev_command ==
  << "pub", "add", "--dev", "build_runner", "flutter_lints",
     "riverpod_generator", "very_good_analysis" >>

scaffold_command(project, package) ==
  [ sub |-> "create", name |-> project, org |-> package,
    platforms |-> "android,ios", no_pub |-> TRUE ]

\* ------------------------------------------------------------------------
\* State of one run of main.
VARIABLES
  pc,            \* the statement main (or a callee) executes next
  project_name,  \* main: project_name
  package_name,  \* main: package_name
  answer,        \* main: feature_name, the answer read in the current
                 \* iteration of the feature loop (<<>> outside of it)
  inputs,        \* the non-empty answers of the feature prompt, in order
  features,      \* main: features
  use_riverpod,  \* main: use_riverpod (FALSE until prompted)
  use_supabase,  \* main: use_supabase (FALSE until prompted)
  fi,            \* index of the feature the feature loop is at
  k,             \* index inside the current loop of directories or files
  dirs,          \* directories that exist under the working directory
  files,         \* files written by this run
  router_dart,   \* <<content>> of app/router.dart once written, else <<>>
  cmd_status,    \* outcome of each external command
  cmd_args,      \* arguments each external command was started with
  log,           \* the commands, filesystem calls and prints so far, and
                 \* the prompt that failed, if one did
  exit_code,     \* -1 while running, then the exit code of the process
  pascal_arg,    \* pascal_case: the argument s of a call made on its own
  pascal_result  \* pascal_case: the String that call returned

vars ==
  << pc, project_name, package_name, inputs, features, use_riverpod,
     use_supabase, fi, k, dirs, files, router_dart, cmd_status, cmd_args,
     log, exit_code, answer, pascal_arg, pascal_result >>

\* Values the prompts and --name can return.
ProjectNames == {S.demo}

PackageNames == {S.com_example}

FeatureInputs == {S.empty, S.blank, S.auth, S.AUTH, S.home, S.login, S.cart}

\* Outcomes of Command::status(): Err, Ok(code 0), Ok(code != 0).
SpawnOutcomes == {"spawn_error", "exit_zero", "exit_nonzero"}

Ev(op, path, fidx, ok) == [op |-> op, path |-> path, fidx |-> fidx, ok |-> ok]

Init ==
  /\ pc = "project_name"
  /\ project_name = <<>>
  /\ package_name = <<>>
  /\ inputs = <<>>
  /\ features = <<>>
  /\ use_riverpod = FALSE
  /\ use_supabase = FALSE
  /\ fi = 0
  /\ k = 0
  /\ dirs = {}
  /\ files = {}
  /\ router_dart = <<>>
  /\ cmd_status = [scaffold |-> "not_run", runtime |-> "not_run", dev |-> "not_run"]
  /\ cmd_args = [scaffold |-> <<>>, runtime |-> <<>>, dev |-> <<>>]
  /\ log = <<>>
  /\ exit_code = -1
  /\ answer = <<>>
  /\ pascal_arg = <<>>
  /\ pascal_result = <<>>

\* Fault variant of then: create_feature_files is called without the layer
\* loop that creates the feature's directories.
then_without_layer_dirs(stmt, supabase) ==
  CASE stmt = "project_name"    -> "package_name"
    [] stmt = "package_name"    -> "scaffold"
    [] stmt = "scaffold"        -> "feature_prompt"
    [] stmt = "feature_prompt"  -> "riverpod_prompt"
    [] stmt = "riverpod_prompt" -> "supabase_prompt"
    [] stmt = "supabase_prompt" -> "base_dirs"
    [] stmt = "base_dirs"       -> "feature_files"
    [] stmt = "feature_dirs"    -> "feature_files"
    [] stmt = "feature_files"   -> "core_files"
    [] stmt = "core_files"      -> "app_files"
    [] stmt = "app_files"       -> "main_dart"
    [] stmt = "main_dart"       -> IF supabase THEN "env" ELSE "runtime_deps"
    [] stmt = "env"             -> "runtime_deps"
    [] stmt = "runtime_deps"    -> "dev_deps"
    [] stmt = "dev_deps"        -> "success"
    [] stmt = "success"         -> "done"

\* Fault variant of then: .env is written after run_flutter_commands
\* instead of before it.
then_env_after_commands(stmt, supabase) ==
  CASE stmt = "project_name"    -> "package_name"
    [] stmt = "package_name"    -> "scaffold"
    [] stmt = "scaffold"        -> "feature_prompt"
    [] stmt = "feature_prompt"  -> "riverpod_prompt"
    [] stmt = "riverpod_prompt" -> "supabase_prompt"
    [] stmt = "supabase_prompt" -> "base_dirs"
    [] stmt = "base_dirs"       -> "feature_dirs"
    [] stmt = "feature_dirs"    -> "feature_files"
    [] stmt = "feature_files"   -> "core_files"
    [] stmt = "core_files"      -> "app_files"
    [] stmt = "app_files"       -> "main_dart"
    [] stmt = "main_dart"       -> "runtime_deps"
    [] stmt = "runtime_deps"    -> "dev_deps"
    [] stmt = "dev_deps"        -> IF supabase THEN "env" ELSE "success"
    [] stmt = "env"             -> "success"
    [] stmt = "success"         -> "done"

\* Program order: the statement that follows statement `stmt` once it (or,
\* for a loop, its last iteration) has completed without error.
then(stmt, supabase) ==
  CASE stmt = "project_name"    -> "package_name"
    [] stmt = "package_name"    -> "scaffold"
    [] stmt = "scaffold"        -> "feature_prompt"
    [] stmt = "feature_prompt"  -> "riverpod_prompt"
    [] stmt = "riverpod_prompt" -> "supabase_prompt"
    [] stmt = "supabase_prompt" -> "base_dirs"
    [] stmt = "base_dirs"       -> "feature_dirs"
    [] stmt = "feature_dirs"    -> "feature_files"
    [] stmt = "feature_files"   -> "core_files"
    [] stmt = "core_files"      -> "app_files"
    [] stmt = "app_files"       -> "main_dart"
    [] stmt = "main_dart"       -> IF supabase THEN "env" ELSE "runtime_deps"
    [] stmt = "env"             -> "runtime_deps"
    [] stmt = "runtime_deps"    -> "dev_deps"
    [] stmt = "dev_deps"        -> "success"
    [] stmt = "success"         -> "done"

\* `?` on an Err: main returns the error, the process exits with status 1.
Abort(ev) ==
  /\ pc' = "failed"
  /\ exit_code' = 1
  /\ log' = Append(log, ev)

\* A step that ended well: record it and move on.
Proceed(ev, next_pc) ==
  /\ pc' = next_pc
  /\ exit_code' = exit_code
  /\ log' = Append(log, ev)

\* A prompt that was answered: move on (answers are kept in the variables
\* they are assigned to, not in the log).
Answered(next_pc) ==
  /\ pc' = next_pc
  /\ UNCHANGED <<exit_code, log>>

\* The outcomes of Command::status()? for the command `name`: only a failure
\* to spawn is an Err; the ExitStatus of a spawned command is dropped.
status_aborts(outcome) == outcome = "spawn_error"

\* A position in create_project_structure and its callees.
At(next_pc, next_fi, next_k) == [pc |-> next_pc, fi |-> next_fi, k |-> next_k]

\* fs::create_dir_all(path)?
create_dir_all(path, fidx, next) ==
  \/ /\ dirs' = dirs \cup Ancestors(path)
     /\ fi' = next.fi
     /\ k' = next.k
     /\ Proceed(Ev("mkdir", path, fidx, TRUE), next.pc)
  \/ /\ UNCHANGED <<dirs, fi, k>>
     /\ Abort(Ev("mkdir", path, fidx, FALSE))

\* Fault variant of fs_write: the Err of fs::write is dropped instead of
\* propagated with `?`.
fs_write_unchecked(path, fidx, next) ==
  \/ /\ Parent(path) \in dirs
     /\ files' = files \cup {path}
     /\ fi' = next.fi
     /\ k' = next.k
     /\ Proceed(Ev("write", path, fidx, TRUE), next.pc)
  \/ /\ files' = files
     /\ fi' = next.fi
     /\ k' = next.k
     /\ Proceed(Ev("write", path, fidx, FALSE), next.pc)

\* fs::write(path, content)?: fails when the parent directory is missing,
\* and may fail for any other I/O reason.
fs_write(path, fidx, next) ==
  \/ /\ Parent(path) \in dirs
     /\ files' = files \cup {path}
     /\ fi' = next.fi
     /\ k' = next.k
     /\ Proceed(Ev("write", path, fidx, TRUE), next.pc)
  \/ /\ UNCHANGED <<files, fi, k>>
     /\ Abort(Ev("write", path, fidx, FALSE))

\* main: cli.name, else the project-name prompt.
GetProjectName ==
  /\ UNCHANGED <<answer, pascal_arg, pascal_result>>
  /\ pc = "project_name"
  /\ \/ \E n \in ProjectNames :
          /\ project_name' = n
          /\ Answered(then(pc, use_supabase))
     \/ \E n \in ProjectNames :
          /\ project_name' = n
          /\ Answered(then(pc, use_supabase))
     \/ /\ Abort(Ev("prompt", <<>>, 0, FALSE))
        /\ UNCHANGED project_name
  /\ UNCHANGED << package_name, inputs, features, use_riverpod, use_supabase,
                  fi, k, dirs, files, router_dart, cmd_status, cmd_args >>

\* main: the package-name prompt.
GetPackageName ==
  /\ UNCHANGED <<answer, pascal_arg, pascal_result>>
  /\ pc = "package_name"
  /\ \/ \E n \in PackageNames :
          /\ package_name' = n
          /\ Answered(then(pc, use_supabase))
     \/ /\ Abort(Ev("prompt", <<>>, 0, FALSE))
        /\ UNCHANGED package_name
  /\ UNCHANGED << project_name, inputs, features, use_riverpod, use_supabase,
                  fi, k, dirs, files, router_dart, cmd_status, cmd_args >>

\* main: `flutter create ...`.status()?  A scaffold that exits 0 has made
\* the project root and lib/; one that exits non-zero has made nothing.
Scaffold ==
  /\ UNCHANGED <<answer, pascal_arg, pascal_result>>
  /\ pc = "scaffold"
  /\ \E outcome \in SpawnOutcomes :
       /\ cmd_status' = [cmd_status EXCEPT !.scaffold = outcome]
       /\ cmd_args' = [cmd_args EXCEPT
                         !.scaffold = <<scaffold_command(project_name, package_name)>>]
       /\ dirs' = IF outcome = "exit_zero"
                    THEN dirs \cup Ancestors(lib_path(project_name))
                    ELSE dirs
       /\ IF status_aborts(outcome)
            THEN Abort(Ev("scaffold", <<>>, 0, FALSE))
            ELSE Proceed(Ev("scaffold", <<>>, 0, TRUE), then(pc, use_supabase))
  /\ UNCHANGED << project_name, package_name, inputs, features, use_riverpod,
                  use_supabase, fi, k, files, router_dart >>

\* main: the prompt of one iteration of the feature loop.
PromptFeature ==
  /\ pc = "feature_prompt"
  /\ \/ \E typed \in FeatureInputs :
          /\ ~trim_is_empty(typed) => Len(inputs) < MaxInputs
          /\ answer' = typed
          /\ Answered("feature_check")
     \/ /\ Abort(Ev("prompt", <<>>, 0, FALSE))
        /\ UNCHANGED answer
  /\ UNCHANGED << project_name, package_name, inputs, features, use_riverpod,
                  use_supabase, fi, k, dirs, files, router_dart, cmd_status,
                  cmd_args, pascal_arg, pascal_result >>

\* main: the rest of the iteration: break on an answer that is empty once
\* trimmed, else push the feature(s) and loop.  feature_name goes out of
\* scope at the end of the iteration.
CheckFeature ==
  /\ pc = "feature_check"
  /\ IF trim_is_empty(answer)
       THEN /\ Answered(then("feature_prompt", use_supabase))
            /\ UNCHANGED <<inputs, features>>
       ELSE /\ features' = features \o pushed_features(answer)
            /\ inputs' = Append(inputs, answer)
            /\ Answered("feature_prompt")
  /\ answer' = <<>>
  /\ UNCHANGED << project_name, package_name, use_riverpod, use_supabase,
                  fi, k, dirs, files, router_dart, cmd_status, cmd_args,
                  pascal_arg, pascal_result >>

\* main: the Riverpod confirmation.
PromptRiverpod ==
  /\ UNCHANGED <<answer, pascal_arg, pascal_result>>
  /\ pc = "riverpod_prompt"
  /\ \/ \E b \in BOOLEAN :
          /\ use_riverpod' = b
          /\ Answered(then(pc, use_supabase))
     \/ /\ Abort(Ev("prompt", <<>>, 0, FALSE))
        /\ UNCHANGED use_riverpod
  /\ UNCHANGED << project_name, package_name, inputs, features, use_supabase,
                  fi, k, dirs, files, router_dart, cmd_status, cmd_args >>

\* main: the Supabase confirmation; on success create_project_structure
\* is entered at its first base directory.
PromptSupabase ==
  /\ UNCHANGED <<answer, pascal_arg, pascal_result>>
  /\ pc = "supabase_prompt"
  /\ \/ \E b \in BOOLEAN :
          /\ use_supabase' = b
          /\ k' = 1
          /\ Answered(then(pc, b))
     \/ /\ Abort(Ev("prompt", <<>>, 0, FALSE))
        /\ UNCHANGED <<use_supabase, k>>
  /\ UNCHANGED << project_name, package_name, inputs, features, use_riverpod,
                  fi, dirs, files, router_dart, cmd_status, cmd_args >>

\* create_project_structure: where the feature loop goes from feature n.
after_feature(n) ==
  IF n < Len(features) THEN At(then("base_dirs", use_supabase), n + 1, 1)
  ELSE At(then("feature_files", use_supabase), 0, 1)

\* create_project_structure: `for dir in base_dirs`.
CreateBaseDir ==
  /\ UNCHANGED <<answer, pascal_arg, pascal_result>>
  /\ pc = "base_dirs"
  /\ create_dir_all(Join(lib_path(project_name), base_dirs[k]), 0,
                    IF k < Len(base_dirs) THEN At("base_dirs", 0, k + 1)
                    ELSE after_feature(0))
  /\ UNCHANGED << project_name, package_name, inputs, features, use_riverpod,
                  use_supabase, files, router_dart, cmd_status, cmd_args >>

\* create_project_structure: `for layer in &feature.layers` of feature fi.
CreateFeatureDir ==
  /\ UNCHANGED <<answer, pascal_arg, pascal_result>>
  /\ pc = "feature_dirs"
  /\ LET ds == layer_dirs(feature_path_of(project_name, features[fi]),
                          features[fi].layers, 1)
     IN create_dir_all(ds[k], fi,
                       IF k < Len(ds) THEN At("feature_dirs", fi, k + 1)
                       ELSE At(then(pc, use_supabase), fi, 1))
  /\ UNCHANGED << project_name, package_name, inputs, features, use_riverpod,
                  use_supabase, files, router_dart, cmd_status, cmd_args >>

\* create_feature_files of feature fi: one fs::write.
WriteFeatureFile ==
  /\ UNCHANGED <<answer, pascal_arg, pascal_result>>
  /\ pc = "feature_files"
  /\ LET fs == feature_files(feature_path_of(project_name, features[fi]),
                             features[fi].name, use_riverpod)
     IN fs_write(fs[k], fi,
                 IF k < Len(fs) THEN At("feature_files", fi, k + 1)
                 ELSE after_feature(fi))
  /\ UNCHANGED << project_name, package_name, inputs, features, use_riverpod,
                  use_supabase, dirs, router_dart, cmd_status, cmd_args >>

\* create_core_files: one fs::write of `for (path, content) in core_files`.
WriteCoreFile ==
  /\ UNCHANGED <<answer, pascal_arg, pascal_result>>
  /\ pc = "core_files"
  /\ LET fs == core_files(lib_path(project_name), use_supabase)
     IN fs_write(fs[k], 0,
                 IF k < Len(fs) THEN At("core_files", 0, k + 1)
                 ELSE At(then(pc, use_supabase), 0, 1))
  /\ UNCHANGED << project_name, package_name, inputs, features, use_riverpod,
                  use_supabase, dirs, router_dart, cmd_status, cmd_args >>

\* create_app_files: one fs::write of `for (path, content) in app_files`.
WriteAppFile ==
  /\ UNCHANGED <<answer, pascal_arg, pascal_result>>
  /\ pc = "app_files"
  /\ LET fs == app_files(lib_path(project_name))
     IN /\ fs_write(fs[k], 0,
                    IF k < Len(fs) THEN At("app_files", 0, k + 1)
                    ELSE At(then(pc, use_supabase), 0, 0))
        /\ router_dart' =
             IF fs[k] = Join(lib_path(project_name), <<S.app, S.router_dart>>)
                /\ pc' # "failed"
               THEN <<generate_router_template(project_name, use_riverpod, features)>>
               ELSE router_dart
  /\ UNCHANGED << project_name, package_name, inputs, features, use_riverpod,
                  use_supabase, dirs, cmd_status, cmd_args >>

\* create_app_files: main.dart; then create_project_structure's .env test.
WriteMainDart ==
  /\ UNCHANGED <<answer, pascal_arg, pascal_result>>
  /\ pc = "main_dart"
  /\ fs_write(main_dart_path(lib_path(project_name)), 0,
              At(then(pc, use_supabase), 0, 0))
  /\ UNCHANGED << project_name, package_name, inputs, features, use_riverpod,
                  use_supabase, dirs, router_dart, cmd_status, cmd_args >>

\* create_project_structure: the .env file (use_supabase only), then
\* run_flutter_commands.
WriteEnv ==
  /\ UNCHANGED <<answer, pascal_arg, pascal_result>>
  /\ pc = "env"
  /\ fs_write(env_path(project_name), 0, At(then(pc, use_supabase), 0, 0))
  /\ UNCHANGED << project_name, package_name, inputs, features, use_riverpod,
                  use_supabase, dirs, router_dart, cmd_status, cmd_args >>

\* run_flutter_commands: `flutter pub add <packages>`.status()?
RunRuntimeDeps ==
  /\ UNCHANGED <<answer, pascal_arg, pascal_result>>
  /\ pc = "runtime_deps"
  /\ \E outcome \in SpawnOutcomes :
       /\ cmd_status' = [cmd_status EXCEPT !.runtime = outcome]
       /\ cmd_args' = [cmd_args EXCEPT
                         !.runtime = runtime_command(use_supabase, use_riverpod)]
       /\ IF status_aborts(outcome)
            THEN Abort(Ev("runtime_deps", <<>>, 0, FALSE))
            ELSE Proceed(Ev("runtime_deps", <<>>, 0, TRUE), then(pc, use_supabase))
  /\ UNCHANGED << project_name, package_name, inputs, features, use_riverpod,
                  use_supabase, fi, k, dirs, files, router_dart >>

\* run_flutter_commands: `flutter pub add --dev <packages>`.status()?
RunDevDeps ==
  /\ UNCHANGED <<answer, pascal_arg, pascal_result>>
  /\ pc = "dev_deps"
  /\ \E outcome \in SpawnOutcomes :
       /\ cmd_status' = [cmd_status EXCEPT !.dev = outcome]
       /\ cmd_args' = [cmd_args EXCEPT !.dev = dev_command]
       /\ IF status_aborts(outcome)
            THEN Abort(Ev("dev_deps", <<>>, 0, FALSE))
            ELSE Proceed(Ev("dev_deps", <<>>, 0, TRUE), then(pc, use_supabase))
  /\ UNCHANGED << project_name, package_name, inputs, features, use_riverpod,
                  use_supabase, fi, k, dirs, files, router_dart >>

\* main: the success line, then Ok(()): exit code 0.
PrintSuccess ==
  /\ UNCHANGED <<answer, pascal_arg, pascal_result>>
  /\ pc = "success"
  /\ pc' = then(pc, use_supabase)
  /\ exit_code' = 0
  /\ log' = Append(log, Ev("success", <<>>, 0, TRUE))
  /\ UNCHANGED << project_name, package_name, inputs, features, use_riverpod,
                  use_supabase, fi, k, dirs, files, router_dart, cmd_status,
                  cmd_args >>

Next ==
  \/ GetProjectName
  \/ GetPackageName
  \/ Scaffold
  \/ PromptFeature
  \/ CheckFeature
  \/ PromptRiverpod
  \/ PromptSupabase
  \/ CreateBaseDir
  \/ CreateFeatureDir
  \/ WriteFeatureFile
  \/ WriteCoreFile
  \/ WriteAppFile
  \/ WriteMainDart
  \/ WriteEnv
  \/ RunRuntimeDeps
  \/ RunDevDeps
  \/ PrintSuccess

Spec == Init /\ [][Next]_vars

\* ------------------------------------------------------------------------
\* generate_router_template on its own: the feature list is any list of at
\* most MaxRouterFeatures features over the names below.
RouterNames ==
  { S.auth, S.login, S.register, S.forgot_password, S.home, S.profile,
    S.settings, S.cart }

RouterFeatureLists ==
  UNION { [1..n -> {Feature_new(name) : name \in RouterNames}] :
          n \in 0..MaxRouterFeatures }

InitRouter ==
  /\ pc = "router_call"
  /\ project_name \in ProjectNames
  /\ package_name = <<>>
  /\ inputs = <<>>
  /\ features \in RouterFeatureLists
  /\ use_riverpod \in BOOLEAN
  /\ use_supabase \in BOOLEAN
  /\ fi = 0
  /\ k = 0
  /\ dirs = {}
  /\ files = {}
  /\ router_dart = <<>>
  /\ cmd_status = [scaffold |-> "not_run", runtime |-> "not_run", dev |-> "not_run"]
  /\ cmd_args = [scaffold |-> <<>>, runtime |-> <<>>, dev |-> <<>>]
  /\ log = <<>>
  /\ exit_code = -1
  /\ answer = <<>>
  /\ pascal_arg = <<>>
  /\ pascal_result = <<>>

CallRouterTemplate ==
  /\ UNCHANGED <<answer, pascal_arg, pascal_result>>
  /\ pc = "router_call"
  /\ pc' = "router_done"
  /\ router_dart' = <<generate_router_template(project_name, use_riverpod, features)>>
  /\ UNCHANGED << project_name, package_name, inputs, features, use_riverpod,
                  use_supabase, fi, k, dirs, files, cmd_status, cmd_args, log,
                  exit_code >>

NextRouter == CallRouterTemplate

SpecRouter == InitRouter /\ [][NextRouter]_vars

\* ------------------------------------------------------------------------
\* pascal_case on its own: the argument is any string of at most
\* MaxPascalLen characters over the alphabet below, or one of the names the
\* program calls it with.
PascalAlphabet == {"a", "B", "_", "1"}

PascalInputs ==
  UNION { [1..n -> PascalAlphabet] : n \in 0..MaxPascalLen }
  \cup { S.forgot_password, <<"x">>, S.login, S.home }

InitPascal ==
  /\ pc = "pascal_call"
  /\ pascal_arg \in PascalInputs
  /\ pascal_result = <<>>
  /\ project_name = <<>>
  /\ package_name = <<>>
  /\ answer = <<>>
  /\ inputs = <<>>
  /\ features = <<>>
  /\ use_riverpod = FALSE
  /\ use_supabase = FALSE
  /\ fi = 0
  /\ k = 0
  /\ dirs = {}
  /\ files = {}
  /\ router_dart = <<>>
  /\ cmd_status = [scaffold |-> "not_run", runtime |-> "not_run", dev |-> "not_run"]
  /\ cmd_args = [scaffold |-> <<>>, runtime |-> <<>>, dev |-> <<>>]
  /\ log = <<>>
  /\ exit_code = -1

CallPascalCase ==
  /\ pc = "pascal_call"
  /\ pc' = "pascal_done"
  /\ pascal_result' = pascal_case(pascal_arg)
  /\ UNCHANGED << project_name, package_name, answer, inputs, features,
                  use_riverpod, use_supabase, fi, k, dirs, files, router_dart,
                  cmd_status, cmd_args, log, exit_code, pascal_arg >>

NextPascal == CallPascalCase

SpecPascal == InitPascal /\ [][NextPascal]_vars

\* ========================================================================
\* Properties.

\* All spellings of `auth` that differ only in letter case.
AuthSpellings ==
  { <<a, u, t, h>> : a \in {"a", "A"}, u \in {"u", "U"},
                     t \in {"t", "T"}, h \in {"h", "H"} }

FeatureNames == {features[i].name : i \in 1..Len(features)}

\* Number of features the first n answers account for.
RECURSIVE FeaturesOfInputs(_)
FeaturesOfInputs(n) ==
  IF n = 0 THEN 0
  ELSE FeaturesOfInputs(n - 1) + (IF inputs[n] \in AuthSpellings THEN 3 ELSE 1)

\* C1: every answer that spells `auth` in any letter case adds exactly the
\* three features login, register, forgot_password, in that order, in its
\* place, and no feature of the list is ever named `auth`.
C1_AuthExpansion ==
  /\ S.auth \notin FeatureNames
  /\ Len(features) = FeaturesOfInputs(Len(inputs))
  /\ \A i \in 1..Len(inputs) :
       inputs[i] \in AuthSpellings =>
         LET o == FeaturesOfInputs(i - 1)
         IN /\ FeaturesOfInputs(i) = o + 3
            /\ Len(features) >= o + 3
            /\ features[o + 1].name = S.login
            /\ features[o + 2].name = S.register
            /\ features[o + 3].name = S.forgot_password

\* C1 witness: create_project_structure is entered after the answer `AUTH`.
C1_Witness ==
  /\ pc = "base_dirs"
  /\ \E i \in 1..Len(inputs) : inputs[i] = S.AUTH
  /\ Len(features) >= 3

\* C2: in a run whose only feature answer is `auth`, with state management
\* on, the router.dart written has the default `/` route and an `/auth`
\* group whose nested routes are exactly login, register and
\* forgot-password (named forgotPassword).
C2_AuthGroupHasThreeRoutes ==
  (inputs = <<S.auth>> /\ use_riverpod /\ router_dart # <<>>) =>
    LET r == router_dart[1]
    IN /\ \E i \in 1..Len(r.routes) : r.routes[i].path = "/"
       /\ Len(r.auth_group) = 1
       /\ LET nested == r.auth_group[1].routes
          IN /\ Len(nested) = 3
             /\ {<<nested[i].path, nested[i].name>> : i \in 1..Len(nested)}
                  = { <<"login", "login">>, <<"register", "register">>,
                      <<"forgot-password", "forgotPassword">> }

RootRoutes(r) == {i \in 1..Len(r.routes) : r.routes[i].path = "/"}

HomeFeatures == {i \in 1..Len(features) : features[i].name = S.home}

\* C3 as stated: with state management on, the emitted route list has
\* exactly one top-level route with path `/`, for every feature list.
C3_ExactlyOneRootRoute ==
  (pc = "router_done" /\ use_riverpod) =>
    Cardinality(RootRoutes(router_dart[1])) = 1

\* C3 amended: with state management on, the emitted route list has at
\* least one top-level route with path `/`: one per feature named `home`,
\* and one synthesized route when no feature is named `home`; so exactly
\* one whenever `home` occurs at most once in the list.
C3_RootRoutePerHome ==
  (pc = "router_done" /\ use_riverpod) =>
    LET roots == Cardinality(RootRoutes(router_dart[1]))
        homes == Cardinality(HomeFeatures)
    IN /\ roots >= 1
       /\ roots = (IF homes = 0 THEN 1 ELSE homes)
       /\ homes <= 1 => roots = 1

\* C3 witness: the template was generated for a list naming `home` twice.
C3_Witness ==
  /\ pc = "router_done"
  /\ use_riverpod
  /\ Cardinality(HomeFeatures) = 2
  /\ Cardinality(RootRoutes(router_dart[1])) = 2

Commands == {"scaffold", "runtime_deps", "dev_deps"}

StatusOf(op) ==
  CASE op = "scaffold"     -> cmd_status.scaffold
    [] op = "runtime_deps" -> cmd_status.runtime
    [] op = "dev_deps"     -> cmd_status.dev

\* C4: a command that exits with a non-zero status fails the run at that
\* point: it is the last step taken, the success line is not printed and
\* the process does not exit 0.
C4_NonZeroExitFailsRun ==
  \A i \in 1..Len(log) :
    (log[i].op \in Commands /\ StatusOf(log[i].op) = "exit_nonzero") =>
      /\ i = Len(log)
      /\ pc = "failed"
      /\ exit_code # 0
      /\ \A j \in 1..Len(log) : log[j].op # "success"

\* C5 as stated: no directory creation follows any file write.
C5_AllDirsBeforeAnyFile ==
  \A i, j \in 1..Len(log) :
    (i < j /\ log[i].op = "write") => log[j].op # "mkdir"

\* The directories created so far by the calls made for feature fidx
\* (0: the base-directory loop).
CreatedFor(fidx) ==
  { log[i].path : i \in {j \in 1..Len(log) :
                           log[j].op = "mkdir" /\ log[j].ok /\ log[j].fidx = fidx} }

FeatureDirsOf(name) ==
  LET root == <<project_name, S.lib, S.features, name>>
  IN { root \o <<S.data>>, root \o <<S.presentation>>,
       root \o <<S.presentation, S.widgets>>, root \o <<S.domain>>,
       root \o <<S.logic>> }

BaseDirs ==
  LET lib == <<project_name, S.lib>>
  IN { lib \o <<S.app>>, lib \o <<S.core, S.constants>>,
       lib \o <<S.core, S.utilities>>, lib \o <<S.core, S.services>>,
       lib \o <<S.core, S.widgets>>, lib \o <<S.state>>, lib \o <<S.theme>> }

\* C5 amended: the seven base directories are all created before the first
\* file write, and every feature's five directories (its four layers and
\* presentation/widgets) are created before any file of that feature is
\* written; a directory creation follows a file write only when it belongs
\* to a later feature than the file written.  Stated of the step just
\* taken, in every state: the log only grows, so it holds of every step.
C5_DirsBeforeOwnFiles ==
  log # <<>> =>
    LET last == log[Len(log)]
    IN /\ last.op = "write" =>
            /\ BaseDirs \subseteq CreatedFor(0)
            /\ last.fidx >= 1 =>
                 FeatureDirsOf(features[last.fidx].name) \subseteq CreatedFor(last.fidx)
       /\ last.op = "mkdir" =>
            \A i \in 1..(Len(log) - 1) :
              log[i].op = "write" =>
                (log[i].fidx >= 1 /\ last.fidx > log[i].fidx)

\* C5 witness: a finished run in which a directory was created after a
\* file had been written (a run with two or more features).
C5_Witness ==
  /\ pc = "done"
  /\ \E i, j \in 1..Len(log) :
       i < j /\ log[i].op = "write" /\ log[j].op = "mkdir"

WriteStatements == {"feature_files", "core_files", "app_files", "main_dart", "env"}

\* The path the statement at pc is about to write.
NextWrite ==
  CASE pc = "feature_files" ->
         feature_files(feature_path_of(project_name, features[fi]),
                       features[fi].name, use_riverpod)[k]
    [] pc = "core_files" -> core_files(lib_path(project_name), use_supabase)[k]
    [] pc = "app_files"  -> app_files(lib_path(project_name))[k]
    [] pc = "main_dart"  -> main_dart_path(lib_path(project_name))
    [] pc = "env"        -> env_path(project_name)

\* C6: whenever the program is about to write a file, the file's parent
\* directory exists, created earlier in this run by the scaffold or by the
\* program's own directory creation.
C6_ParentExistsAtWrite ==
  pc \in WriteStatements => Parent(NextWrite) \in dirs

\* C6 witness: .env was written in a run with features whose scaffold made
\* nothing, so every parent was created by the program itself.
C6_Witness ==
  /\ pc = "runtime_deps"
  /\ cmd_status.scaffold = "exit_nonzero"
  /\ <<project_name, S.dot_env>> \in files
  /\ Len(features) >= 2
  /\ use_riverpod

WritesFinished == pc \in {"runtime_deps", "dev_deps", "success", "done"}

ControllerOf(name) ==
  <<project_name, S.lib, S.features, name, S.logic, name \o S.x_controller>>

UngatedFeatureFilesOf(name) ==
  LET root == <<project_name, S.lib, S.features, name>>
  IN { root \o <<S.data, name \o S.x_repository>>,
       root \o <<S.domain, name \o S.x_model>>,
       root \o <<S.presentation, name \o S.x_screen>> }

BackendFiles ==
  { <<project_name, S.lib, S.core, S.services, S.auth_service_dart>>,
    <<project_name, S.lib, S.core, S.services, S.auth_service_provider_dart>>,
    <<project_name, S.dot_env>> }

UngatedFiles ==
  LET lib == <<project_name, S.lib>>
  IN { lib \o <<S.core, S.constants, S.app_theme_dart>>,
       lib \o <<S.core, S.constants, S.app_colors_dart>>,
       lib \o <<S.core, S.constants, S.app_strings_dart>>,
       lib \o <<S.core, S.utilities, S.logging_dart>>,
       lib \o <<S.core, S.utilities, S.permissions_dart>>,
       lib \o <<S.core, S.widgets, S.custom_button_dart>>,
       lib \o <<S.app, S.app_dart>>,
       lib \o <<S.app, S.router_dart>>,
       lib \o <<S.theme, S.app_theme_dart>>,
       lib \o <<S.main_dart>> }

\* C7: a feature's controller file is written iff state management is on;
\* auth_service.dart, auth_service_provider.dart and .env are written iff
\* the backend is on; the ungated per-feature, core and app files are
\* written whatever the toggles.  (A gated file is never written with its
\* toggle off; once the writes are over, everything else is on disk.)
C7_GatedFiles ==
  /\ \A n \in FeatureNames : ControllerOf(n) \in files => use_riverpod
  /\ \A f \in BackendFiles : f \in files => use_supabase
  /\ WritesFinished =>
       /\ \A n \in FeatureNames :
            /\ use_riverpod => ControllerOf(n) \in files
            /\ UngatedFeatureFilesOf(n) \subseteq files
       /\ use_supabase => BackendFiles \subseteq files
       /\ UngatedFiles \subseteq files

\* C7 witness: all writes are over with state management on, the backend
\* off and at least one feature.
C7_Witness ==
  /\ WritesFinished
  /\ use_riverpod
  /\ ~use_supabase
  /\ Len(features) >= 1

ClaimedRuntimePackages ==
  base_dependencies
  \o (IF use_riverpod
        THEN <<"hooks_riverpod", "riverpod_annotation", "flutter_riverpod",
               "flutter_hooks">>
        ELSE <<>>)
  \o (IF use_supabase THEN <<"supabase_flutter">> ELSE <<>>)

\* C8: the runtime dependency-add command is given the 14 base packages,
\* then the four state-management packages iff state management is on,
\* then supabase_flutter iff the backend is on, each package once.
C8_RuntimePackagesOnce ==
  cmd_status.runtime # "not_run" =>
    /\ cmd_args.runtime = <<"pub", "add">> \o ClaimedRuntimePackages
    /\ \A i, j \in 1..Len(cmd_args.runtime) :
         cmd_args.runtime[i] = cmd_args.runtime[j] => i = j

\* Phase of a logged step: 1 scaffold, 2 directory creation or file write,
\* 3 runtime dependency-add, 4 dev dependency-add, 5 success line.
Phase(op) ==
  CASE op = "scaffold"           -> 1
    [] op \in {"mkdir", "write"} -> 2
    [] op = "runtime_deps"       -> 3
    [] op = "dev_deps"           -> 4
    [] op = "success"            -> 5
    [] OTHER                     -> 0

PhasesSoFar == {Phase(log[i].op) : i \in 1..Len(log)}

Written == {log[i].path : i \in {j \in 1..Len(log) : log[j].op = "write" /\ log[j].ok}}

\* C9: the steps of a run occur in the order scaffold, directory creations
\* and file writes, runtime dependency-add, dev dependency-add, success
\* line; each command and the success line occur at most once; no
\* directory or file is written before the scaffold has returned or after
\* the runtime dependency-add has started; a successful run has them all.
\* The order is stated of the step just taken, in every state: the log
\* only grows, so it holds of every step.
C9_StepOrder ==
  /\ (log # <<>> /\ Phase(log[Len(log)].op) # 0) =>
       LET n == Len(log)
           p == Phase(log[n].op)
       IN /\ \A i \in 1..(n - 1) :
               /\ Phase(log[i].op) <= p
               /\ Phase(log[i].op) = p => p = 2
               /\ log[i].ok
          /\ p > 1 => \E i \in 1..(n - 1) : Phase(log[i].op) = p - 1
  /\ pc = "done" =>
       /\ PhasesSoFar = 1..5
       /\ log[Len(log)].op = "success"
       /\ UngatedFiles \subseteq Written
       /\ use_supabase => <<project_name, S.dot_env>> \in Written

\* C9 witness: a successful run with features and a .env file.
C9_Witness ==
  /\ pc = "done"
  /\ exit_code = 0
  /\ use_supabase
  /\ Len(features) >= 2

\* C10: a failed prompt, spawn, directory creation or file write is the
\* last step of the run: the process exits non-zero without the success
\* line, and everything created or written before it is still there.
C10_AbortOnError ==
  /\ \A i \in 1..Len(log) :
       ~log[i].ok =>
         /\ i = Len(log)
         /\ pc = "failed"
         /\ exit_code > 0
         /\ \A j \in 1..Len(log) : log[j].op # "success"
  /\ pc = "failed" =>
       /\ ~log[Len(log)].ok
       /\ Written \subseteq files
       /\ \A i \in 1..Len(log) :
            (log[i].op = "mkdir" /\ log[i].ok) => log[i].path \in dirs

\* C10 witness: a file write failed after other files had been written.
C10_Witness ==
  /\ pc = "failed"
  /\ exit_code = 1
  /\ files # {}
  /\ log[Len(log)].op = "write"
  /\ ~log[Len(log)].ok

\* The characters of s that the claim has uppercased: the first one and
\* each one right after an underscore.
Capitalized(s) ==
  [i \in 1..Len(s) |->
     IF i = 1 \/ s[i - 1] = "_" THEN to_ascii_uppercase(s[i]) ELSE s[i]]

NotUnderscore(c) == c # "_"

\* C11: pascal_case(s) is s with the first character and every character
\* right after an underscore ASCII-uppercased, all other characters
\* unchanged, and every underscore removed; pascal_case("forgot_password")
\* is "ForgotPassword", pascal_case("x") is "X", pascal_case("") is "".
C11_PascalCase ==
  pc = "pascal_done" =>
    /\ pascal_result = SelectSeq(Capitalized(pascal_arg), NotUnderscore)
    /\ pascal_arg = S.forgot_password =>
         pascal_result = <<"F","o","r","g","o","t","P","a","s","s","w","o","r","d">>
    /\ pascal_arg = <<"x">> => pascal_result = <<"X">>
    /\ pascal_arg = <<>> => pascal_result = <<>>

\* C11 witness: pascal_case has returned for an argument with a lowercase
\* letter first, an underscore inside and a lowercase letter after it.
C11_Witness ==
  /\ pc = "pascal_done"
  /\ pascal_arg = <<"a", "_", "a", "B">>
  /\ pascal_result = <<"A", "A", "B">>

AuthSeen == FeatureNames \cap {S.auth, S.login, S.register} # {}

\* C12: with state management on, the redirect block, the auth-service
\* read and the `/auth` route group are each emitted exactly when some
\* feature is named auth, login or register, whatever use_backend is; a
\* list with none of these names (only forgot_password, say) gets none.
C12_AuthPartsIffAuthSeen ==
  (pc = "router_done" /\ use_riverpod) =>
    LET r == router_dart[1]
    IN /\ r.auth_redirect <=> AuthSeen
       /\ r.auth_service <=> AuthSeen
       /\ Len(r.auth_group) = (IF AuthSeen THEN 1 ELSE 0)
       /\ FeatureNames = {S.forgot_password} =>
            (~r.auth_redirect /\ ~r.auth_service /\ r.auth_group = <<>>)

\* C12 witness: the template was generated, with the backend off, for a
\* list whose only auth-related name is register, and has the three parts.
C12_Witness ==
  /\ pc = "router_done"
  /\ use_riverpod
  /\ ~use_supabase
  /\ FeatureNames = {S.register, S.forgot_password}
  /\ router_dart[1].auth_redirect
  /\ router_dart[1].auth_service
  /\ Len(router_dart[1].auth_group) = 1

\* What the loop does with a non-empty answer, as the claim has it: `auth`
\* in any letter case becomes login, register, forgot_password; any other
\* answer becomes one feature of that very name.
ExpansionOf(typed) ==
  IF typed \in AuthSpellings
    THEN <<S.login, S.register, S.forgot_password>>
    ELSE <<typed>>

RECURSIVE ExpansionOfAll(_, _)
ExpansionOfAll(answers, n) ==
  IF n = 0 THEN <<>>
  ELSE ExpansionOfAll(answers, n - 1) \o ExpansionOf(answers[n])

NamesOf(feats) == [i \in 1..Len(feats) |-> feats[i].name]

\* The iteration pushed the expansion of its answer and went back to the
\* prompt.
PushedAndLooped ==
  /\ pc' = "feature_prompt"
  /\ NamesOf(features') = NamesOf(features) \o ExpansionOf(answer)
  /\ inputs' = Append(inputs, answer)

\* The iteration left the loop without touching the list.
LeftLoop ==
  /\ pc' = "riverpod_prompt"
  /\ features' = features
  /\ inputs' = inputs

\* C13 as stated: only an empty answer ends the feature loop; every
\* non-empty answer is pushed (as its expansion if it is `auth`, verbatim
\* otherwise) and the loop goes on.
C13_OnlyEmptyEndsLoop ==
  [][ pc = "feature_check" =>
        IF answer = <<>> THEN LeftLoop ELSE PushedAndLooped ]_vars

BlankAnswer == \A i \in 1..Len(answer) : answer[i] \in {" ", "\t", "\n", "\r"}

\* C13 amended: an answer that is empty or consists of whitespace only
\* ends the feature loop and is not added; every other answer that is not
\* `auth` (in any letter case) is pushed verbatim as exactly one feature
\* and the loop goes on; so the feature list is always the answers pushed
\* so far, in entry order, each `auth` replaced by its three features.
C13_BlankEndsLoop ==
  /\ [][ pc = "feature_check" =>
           IF BlankAnswer THEN LeftLoop ELSE PushedAndLooped ]_vars
  /\ [](NamesOf(features) = ExpansionOfAll(inputs, Len(inputs)))

\* C13 witness: the loop was left after the answers cart and AUTH.
C13_Witness ==
  /\ pc = "riverpod_prompt"
  /\ inputs = <<S.cart, S.AUTH>>
  /\ NamesOf(features) = <<S.cart, S.login, S.register, S.forgot_password>>

\* The imports of the router.dart written that name a screen of this
\* project: package:<project_name>/features/<dir>/presentation/<x>_screen.dart.
ScreenImports ==
  LET imports == router_dart[1].imports
  IN { imports[i] : i \in { j \in 1..Len(imports) :
                              /\ Len(imports[j]) >= 2
                              /\ imports[j][1] = project_name
                              /\ imports[j][2] = S.features } }

\* The file a package:<project_name>/... import names: lib/ of the project.
FileOfImport(import) == <<project_name, S.lib>> \o Tail(import)

\* C14: with state management on, every screen import of the router.dart
\* written names a file this run has written under lib/features/.
C14_ScreenImportsAreWritten ==
  (WritesFinished /\ use_riverpod) =>
    \A import \in ScreenImports : FileOfImport(import) \in files

====
